---- MODULE Spec2Model ----
(***************************************************************************)
(* Model of the composition-and-lifecycle engine of modular_drl_env:       *)
(* ModularDRLEnv.__init__ / reset / step (src/gym_env/environment.py) and  *)
(* World.perform_collision_check (src/world/world.py).                     *)
(*                                                                         *)
(* The world, robot, sensor and goal plugins and the physics engine are    *)
(* external: what they return (contact points, the goals' reward tuples,   *)
(* the robots' action dimensionalities) is drawn from small sets.          *)
(* reset() and step() are sequential handlers; each is cut at its loops    *)
(* (the retry loop of reset, the goal loop of step), pc holding the        *)
(* position, so that only one handler runs at a time.                      *)
(***************************************************************************)
EXTENDS Integers, Sequences, FiniteSets, TLC

(***************************************************************************)
(* Program constants                                                       *)
(***************************************************************************)
stat_buffer_size == 25

reset_limit == 1000

(***************************************************************************)
(* Bounds of the model                                                     *)
(***************************************************************************)
MaxRobots == 2

MaxSteps == 2

MaxEpisodes == 1

MaxCollide == 2

StatExtraEpisodes == 2

MaxMarks == 1

StatSteps == 1

VerdictSteps == 1

ExhaustSteps == 1

AttemptCollide == 1

OrderSteps == 2

TrackSteps == 2

LengthSteps == 1

BuildSteps == 1

MaxPlugins == 2

MaxKeys == 2

VARIABLES
    \* configuration fixed by __init__
    action_space_dims,        \* self.action_space_dims, one entry per robot
    continue_after_success,   \* goal.continue_after_success, one entry per goal
    normalize_rewards,        \* self.normalize_rewards
    logging,                  \* self.logging
    display_extra,            \* self.show_auxillary_geometry_world and self.show_auxillary_geometry_goal
    plugins,                  \* self.sensors followed by self.goals: the keys each contributes, and whether it opts in
    observation_space,        \* self.observation_space: key -> the plugin whose space element it holds
    needs_a_position,         \* robot.goal.needs_a_position, one entry per robot
    needs_a_rotation,         \* robot.goal.needs_a_rotation, one entry per robot
    robot_ids,                \* robot.id, one entry per robot
    robots_with_position,     \* self.world.robots_with_position
    robots_with_orientation,  \* self.world.robots_with_orientation
    \* tracking variables of the environment
    steps_current_episode, sim_time, log, reward, reward_cumulative,
    cpu_time,                 \* self.cpu_time, in ticks of a clock that advances by one per step()
    success_stat, out_of_bounds_stat, timeout_stat, collision_stat,
    active_robots,            \* self.active_robots (meaningful once active_robots_set)
    active_robots_set,        \* whether the attribute self.active_robots exists yet
    collision,                \* self.world.collision
    objects_ids,              \* self.world.objects_ids
    aux_object_ids,           \* self.world.aux_object_ids
    position_targets,         \* self.world.position_targets
    rotation_targets,         \* self.world.rotation_targets
    \* position inside the running handler and its local variables
    pc, reset_count,
    action, exec_times_cpu, rewards, dones, successes, timeouts, oobs,
    done, is_success, timeout, out_of_bounds,
    \* observation of the run (history, not program state)
    processed,                \* per robot: the process_action call of the current step
    attempts,                 \* initialization attempts started by the current reset()
    episodes,                 \* number of step() calls so far whose done was true
    outcomes,                 \* the is_success of each of those steps, oldest first
    contacts,                 \* the touching body pairs the engine reported to the last perform_collision_check called on its own
    step_calls,               \* the plugin calls made by the running or last step(), in order
    calls,                    \* the calls made by the last initialization attempt of reset(), in order
    hooks,                    \* what the running or last reset() did after its retry loop, in order
    before_reset,             \* what the caller could observe when the running or failed reset() was entered
    succeeded,                \* robots whose goal reported success (continue_after_success false) since the last successful reset
    ret                       \* the call in progress or last finished, and how it ended

cfgVars == <<action_space_dims, continue_after_success, normalize_rewards, logging, display_extra,
             plugins, observation_space, needs_a_position, needs_a_rotation,
             robot_ids, robots_with_position, robots_with_orientation>>

trackVars == <<steps_current_episode, sim_time, cpu_time, log, reward, reward_cumulative>>

statVars == <<success_stat, out_of_bounds_stat, timeout_stat, collision_stat>>

targetVars == <<position_targets, rotation_targets>>

worldVars == <<objects_ids, aux_object_ids>>

localVars == <<action, exec_times_cpu, rewards, dones, successes, timeouts, oobs,
               done, is_success, timeout, out_of_bounds>>

vars == <<cfgVars, trackVars, statVars, targetVars, worldVars, active_robots, active_robots_set, collision,
          pc, reset_count, localVars, processed, attempts, episodes, outcomes,
          contacts, step_calls, calls, hooks, before_reset, succeeded, ret>>

(***************************************************************************)
(* Helpers                                                                 *)
(***************************************************************************)
Min(a, b) == IF a < b THEN a ELSE b

Abs(x) == IF x < 0 THEN -x ELSE x

RECURSIVE GCD(_, _)
GCD(a, b) == IF b = 0 THEN a ELSE GCD(b, a % b)

RECURSIVE SumSeq(_)
SumSeq(s) == IF s = <<>> THEN 0 ELSE Head(s) + SumSeq(Tail(s))

\* numbers are exact fractions num/den; den = 0 is numpy's nan (0/0)
Frac(n, d) ==
    IF d = 0 THEN [num |-> 0, den |-> 0]
    ELSE LET g == GCD(Abs(n), d) IN [num |-> n \div g, den |-> d \div g]

FracAdd(a, b) ==
    IF a.den = 0 \/ b.den = 0 THEN [num |-> 0, den |-> 0]
    ELSE Frac(a.num * b.den + b.num * a.den, a.den * b.den)

\* Python's s[a:b] for 0 <= a <= b (0-based, end exclusive, clipped to len(s))
PySlice(s, a, b) == SubSeq(s, a + 1, Min(b, Len(s)))

NumRobots == Len(action_space_dims)

\* plugins lists the sensors first, then one goal per robot
NumSensors == Len(plugins) - NumRobots

\* np.any / np.all over a list of booleans
NpAny(s) == \E i \in 1..Len(s) : s[i]

NpAll(s) == \A i \in 1..Len(s) : s[i]

(***************************************************************************)
(* World.perform_collision_check                                           *)
(* Bodies are numbered: robot k has object id k, the collision object     *)
(* that the world builds is n+1, and n+2 is a body of the simulation that  *)
(* is in no list of the world.  objects_ids is empty until the world was   *)
(* built; aux_object_ids is empty throughout, World.build_visual_aux adds  *)
(* nothing.  touching is the set of body pairs {a, b} for which            *)
(* getContactPoints returns a non-empty list.                              *)
(***************************************************************************)
RobotsInWorld(n) == [k \in 1..n |-> k]

\* World.build(): the ids it adds to the emptied objects_ids
ObjectsIds(n) == <<n + 1>>

\* World.build_visual_aux(): its body is pass, the list stays as it was
build_visual_aux(aux) == aux

BodyPairs(bodies) == {{a, b} : a \in bodies, b \in bodies} \ {{a} : a \in bodies}

\* contact sets the physics engine may report: none, or one touching pair
ResetContacts(n) == {{}} \cup {{p} : p \in BodyPairs(1..(n + 1))}

StepContacts(n) == {{}} \cup {{p} : p \in BodyPairs(1..(n + 2))}

GetContactPoints(a, b, touching) == {a, b} \in touching

RECURSIVE ScanObjects(_, _, _, _)
ScanObjects(robot, objs, k, touching) ==
    IF k > Len(objs) THEN FALSE
    ELSE IF GetContactPoints(robot, objs[k], touching) THEN TRUE
    ELSE ScanObjects(robot, objs, k + 1, touching)

RECURSIVE ScanRobotsObjects(_, _, _, _)
ScanRobotsObjects(robots, objs, i, touching) ==
    IF i > Len(robots) THEN FALSE
    ELSE IF ScanObjects(robots[i], objs, 1, touching) THEN TRUE
    ELSE ScanRobotsObjects(robots, objs, i + 1, touching)

RECURSIVE ScanOthers(_, _, _, _)
ScanOthers(robot, robots, j, touching) ==
    IF j > Len(robots) THEN FALSE
    ELSE IF GetContactPoints(robot, robots[j], touching) THEN TRUE
    ELSE ScanOthers(robot, robots, j + 1, touching)

RECURSIVE ScanRobotPairs(_, _, _)
ScanRobotPairs(robots, i, touching) ==
    IF i > Len(robots) - 1 THEN FALSE
    ELSE IF ScanOthers(robots[i], robots, i + 1, touching) THEN TRUE
    ELSE ScanRobotPairs(robots, i + 1, touching)

perform_collision_check_ObjectsOnly(robots, objs, touching) ==
    ScanRobotsObjects(robots, objs, 1, touching)

perform_collision_check(robots, objs, touching) ==
    IF ScanRobotsObjects(robots, objs, 1, touching) THEN TRUE
    ELSE ScanRobotPairs(robots, 1, touching)

(***************************************************************************)
(* Construction                                                            *)
(***************************************************************************)
\* what robot.get_action_space_dims() yields for n robots: one dimension each,
\* or k + 1 dimensions for the k-th robot
DimPatterns(n) == {[k \in 1..n |-> 1], [k \in 1..n |-> k + 1]}

Configs(robotCounts, casModes, normalizeModes, loggingModes, displayModes) ==
    UNION {
        [dims : DimPatterns(n), cas : [1..n -> casModes],
         normalize : normalizeModes, logging : loggingModes, display : displayModes]
        : n \in robotCounts }

\* {**d1, **d2}: the entries of both dicts, those of d2 replacing those of d1
DictMerge(d1, d2) ==
    [k \in (DOMAIN d1) \cup (DOMAIN d2) |-> IF k \in DOMAIN d2 THEN d2[k] ELSE d1[k]]

\* plugin.get_observation_space_element(): one space per key of the plugin,
\* represented by the position p of the plugin
SpaceElement(p, keys) == [k \in keys |-> p]

\* lines 157-163: merge the elements of the sensors and goals that opt in
RECURSIVE ComposeObservationSpace(_, _, _)
ComposeObservationSpace(plugs, p, dict) ==
    IF p > Len(plugs) THEN dict
    ELSE IF plugs[p].add_to_observation_space
    THEN ComposeObservationSpace(plugs, p + 1,
                                 DictMerge(dict, SpaceElement(p, plugs[p].keys)))
    ELSE ComposeObservationSpace(plugs, p + 1, dict)

\* the sensors and goals tried for n robots: up to MaxPlugins plugins, the last
\* n of them the goals, with keys among 1..MaxKeys, opting in or not
AnyPlugins(n) ==
    UNION { [1..m -> [keys : SUBSET (1..MaxKeys), add_to_observation_space : BOOLEAN]]
            : m \in n..MaxPlugins }

\* one sensor and one goal per robot, each with a key of its own, all opting in
OwnKeyPlugins(n) ==
    {[p \in 1..(2 * n) |-> [keys |-> {p}, add_to_observation_space |-> TRUE]]}

\* World.__init__: the robot lists are empty
EmptyWorld == [robots_with_position |-> <<>>, robots_with_orientation |-> <<>>]

\* line 107: the id a robot carries before it is registered
UnregisteredId == 1

NextId_Stuck(id_counter) == id_counter

\* line 50
NextId(id_counter) == id_counter + 1

\* lines 51-54: sort robot k into the lists of the world
SortRobot(world, k, needsPos, needsRot) ==
    IF needsPos
    THEN [world EXCEPT !.robots_with_position = Append(@, k)]
    ELSE IF needsRot
    THEN [world EXCEPT !.robots_with_orientation = Append(@, k)]
    ELSE world

\* World.register_robots: ids[k] is robot.id of the k-th robot handed in
RECURSIVE register_robots(_, _, _, _, _, _)
register_robots(world, ids, needsPos, needsRot, k, id_counter) ==
    IF k > Len(ids) THEN [world |-> world, ids |-> ids]
    ELSE register_robots(SortRobot(world, k, needsPos[k], needsRot[k]),
                         [ids EXCEPT ![k] = id_counter],
                         needsPos, needsRot, k + 1, NextId(id_counter))

\* the goals tried: every combination of the two flags, per robot
GoalNeeds(n) == [1..n -> [position : BOOLEAN, rotation : BOOLEAN]]

\* goals like the PositionCollisionGoal of lines 137-151
PositionGoals(n) == {[k \in 1..n |-> [position |-> TRUE, rotation |-> FALSE]]}

NoSnapshot == [collision |-> FALSE, active_robots |-> <<>>, steps |-> 0, stats |-> <<>>]

NoCall == [called |-> FALSE, slice |-> <<>>]

Idle == [op |-> "none", status |-> "ok"]

InitFrom(configs, pluginsOf, goalsOf) ==
    /\ \E c \in configs :
        /\ action_space_dims = c.dims
        /\ continue_after_success = c.cas
        /\ normalize_rewards = c.normalize
        /\ logging = c.logging
        /\ display_extra = c.display
        /\ \E goals \in goalsOf[Len(c.dims)] :
            LET n == Len(c.dims)
                registered ==
                    register_robots(EmptyWorld, [k \in 1..n |-> UnregisteredId],
                                    [k \in 1..n |-> goals[k].position],
                                    [k \in 1..n |-> goals[k].rotation], 1, 0)
            IN  /\ needs_a_position = [k \in 1..n |-> goals[k].position]
                /\ needs_a_rotation = [k \in 1..n |-> goals[k].rotation]
                /\ robot_ids = registered.ids
                /\ robots_with_position = registered.world.robots_with_position
                /\ robots_with_orientation = registered.world.robots_with_orientation
        /\ \E plugs \in pluginsOf[Len(c.dims)] :
            /\ plugins = plugs
            /\ observation_space = ComposeObservationSpace(plugs, 1, <<>>)
    /\ steps_current_episode = 0
    /\ sim_time = 0
    /\ cpu_time = 0
    /\ log = <<>>
    /\ reward = Frac(0, 1)
    /\ reward_cumulative = Frac(0, 1)
    /\ success_stat = <<FALSE>>
    /\ out_of_bounds_stat = <<FALSE>>
    /\ timeout_stat = <<FALSE>>
    /\ collision_stat = <<FALSE>>
    /\ active_robots = <<>>
    /\ active_robots_set = FALSE
    /\ collision = FALSE
    /\ objects_ids = <<>>
    /\ aux_object_ids = <<>>
    /\ position_targets = <<>>
    /\ rotation_targets = <<>>
    /\ pc = "idle"
    /\ reset_count = 0
    /\ action = <<>>
    /\ exec_times_cpu = <<>>
    /\ rewards = <<>>
    /\ dones = <<>>
    /\ successes = <<>>
    /\ timeouts = <<>>
    /\ oobs = <<>>
    /\ done = FALSE
    /\ is_success = FALSE
    /\ timeout = FALSE
    /\ out_of_bounds = FALSE
    /\ processed = <<>>
    /\ attempts = 0
    /\ episodes = 0
    /\ outcomes = <<>>
    /\ before_reset = NoSnapshot
    /\ contacts = {}
    /\ calls = <<>>
    /\ hooks = <<>>
    /\ step_calls = <<>>
    /\ succeeded = {}
    /\ ret = Idle

InitWith(configs) ==
    InitFrom(configs, [n \in 0..MaxRobots |-> OwnKeyPlugins(n)],
             [n \in 0..MaxRobots |-> PositionGoals(n)])

Init == InitWith(Configs(0..MaxRobots, BOOLEAN, {FALSE}, {0, 1, 2}, {FALSE}))

(***************************************************************************)
(* reset()                                                                 *)
(***************************************************************************)
\* lines 183-198: clear the tracking variables, enter the retry loop
ResetBegin ==
    /\ pc = "idle"
    /\ steps_current_episode' = 0
    /\ log' = <<>>
    /\ sim_time' = 0
    /\ cpu_time' = 0
    /\ reward' = Frac(0, 1)
    /\ reward_cumulative' = Frac(0, 1)
    /\ reset_count' = 0
    /\ attempts' = 0
    /\ pc' = "reset_loop"
    /\ ret' = [op |-> "reset", status |-> "running"]
    /\ hooks' = <<>>
    /\ before_reset' = [collision |-> collision, active_robots |-> active_robots,
                        steps |-> steps_current_episode,
                        stats |-> <<success_stat, timeout_stat, out_of_bounds_stat,
                                    collision_stat>>]
    /\ UNCHANGED <<cfgVars, worldVars, targetVars, step_calls, contacts, calls, statVars, active_robots, active_robots_set, collision,
                   localVars, processed, episodes, outcomes, succeeded>>

\* line 200: the guard at the head of the retry loop
ResetGivesUp(count) == count > reset_limit

ResetLoopBreaks_Always(col) == TRUE

\* lines 236-237: the loop is left when the attempt is collision free
ResetLoopBreaks(col) == ~col

\* lines 200-201: raise after too many colliding attempts
ResetRaise ==
    /\ pc = "reset_loop"
    /\ ResetGivesUp(reset_count)
    /\ pc' = "idle"
    /\ reset_count' = 0
    /\ ret' = [op |-> "reset", status |-> "raise"]
    /\ UNCHANGED <<cfgVars, worldVars, targetVars, hooks, step_calls, contacts, calls, before_reset, trackVars, statVars, active_robots, active_robots_set,
                   collision, localVars, processed, attempts, episodes, outcomes, succeeded>>

Call(fn, robot) == [fn |-> fn, robot |-> robot]

\* what World.create_ee_starting_points() may return for n robots: per robot no
\* point, a position, or a position and a rotation
AnyPoints(n) == [1..n -> {"none", "xyz", "xyzquat"}]

\* a position for every robot
XyzPoints(n) == {[k \in 1..n |-> "xyz"]}

\* lines 224-232: move the robots to their starting points
RECURSIVE Teleports(_, _)
Teleports(ee_starting_points, idx) ==
    IF idx > Len(ee_starting_points) THEN <<>>
    ELSE IF ee_starting_points[idx] = "none"
    THEN Teleports(ee_starting_points, idx + 1)
    ELSE IF ee_starting_points[idx] = "xyz"
    THEN <<Call("robot.moveto_xyz", idx)>> \o Teleports(ee_starting_points, idx + 1)
    ELSE <<Call("robot.moveto_xyzquat", idx)>> \o Teleports(ee_starting_points, idx + 1)

AttemptCalls_TeleportFirst(n, ee_starting_points) ==
    <<Call("pyb.resetSimulation", 0), Call("world.reset", 0)>>
    \o [k \in 1..n |-> Call("robot.build", k)]
    \o <<Call("world.create_ee_starting_points", 0)>>
    \o Teleports(ee_starting_points, 1)
    \o <<Call("world.create_position_target", 0),
          Call("world.create_rotation_target", 0),
          Call("world.build", 0)>>
    \o <<Call("world.perform_collision_check", 0)>>

\* lines 217-218: what world.create_position_target() and
\* world.create_rotation_target() return in the attempt-th attempt of a reset():
\* one fresh entry per robot, named after the attempt.  reset() keeps the two
\* lists in local variables that it never reads.
CreatedTargets(n, attempt) == [k \in 1..n |-> attempt]

\* lines 203-235: the calls of one initialization attempt
AttemptCalls(n, ee_starting_points) ==
    <<Call("pyb.resetSimulation", 0), Call("world.reset", 0)>>
    \o [k \in 1..n |-> Call("robot.build", k)]
    \o <<Call("world.create_ee_starting_points", 0),
          Call("world.create_position_target", 0),
          Call("world.create_rotation_target", 0),
          Call("world.build", 0)>>
    \o Teleports(ee_starting_points, 1)
    \o <<Call("world.perform_collision_check", 0)>>

\* _get_obs(), lines 265-277: read the sensors, then the goals, that opt in
RECURSIVE ObservationCalls(_, _, _)
ObservationCalls(plugs, sensors, p) ==
    IF p > Len(plugs) THEN <<>>
    ELSE IF ~plugs[p].add_to_observation_space
    THEN ObservationCalls(plugs, sensors, p + 1)
    ELSE IF p <= sensors
    THEN <<Call("sensor.get_observation", p)>> \o ObservationCalls(plugs, sensors, p + 1)
    ELSE <<Call("goal.get_observation", p - sensors)>>
         \o ObservationCalls(plugs, sensors, p + 1)

\* lines 253-258: the visual extras of the world and of every goal, when shown
VisualAuxCalls(goals, extra) ==
    IF extra
    THEN <<Call("world.build_visual_aux", 0)>>
         \o [g \in 1..goals |-> Call("goal.build_visual_aux", g)]
    ELSE <<>>

AfterLoopCalls_GoalsFirst(plugs, sensors, goals, extra) ==
    <<Call("self.active_robots", 0)>>
    \o [g \in 1..goals |-> Call("goal.on_env_reset", g)]
    \o [k \in 1..sensors |-> Call("sensor.reset", k)]
    \o VisualAuxCalls(goals, extra)
    \o ObservationCalls(plugs, sensors, 1)

\* lines 241-263: mark the robots active (recorded as an entry of its own),
\* reset the sensors, tell the goals, build the visual extras if they are
\* shown, read the observation
AfterLoopCalls(plugs, sensors, goals, extra) ==
    <<Call("self.active_robots", 0)>>
    \o [k \in 1..sensors |-> Call("sensor.reset", k)]
    \o [g \in 1..goals |-> Call("goal.on_env_reset", g)]
    \o VisualAuxCalls(goals, extra)
    \o ObservationCalls(plugs, sensors, 1)

\* lines 203-239: one initialization attempt that ends in a collision
ResetAttemptCollide(maxCollide, points) ==
    /\ pc = "reset_loop"
    /\ ~ResetGivesUp(reset_count)
    /\ reset_count < maxCollide
    /\ objects_ids' = ObjectsIds(NumRobots)
    /\ aux_object_ids' = aux_object_ids
    /\ \E c \in ResetContacts(NumRobots) :
        LET col == perform_collision_check(RobotsInWorld(NumRobots), objects_ids', c)
        IN  /\ ~ResetLoopBreaks(col)
            /\ collision' = col
    /\ reset_count' = reset_count + 1
    /\ attempts' = attempts + 1
    /\ \E ee \in points : calls' = AttemptCalls(NumRobots, ee)
    /\ UNCHANGED <<cfgVars, targetVars, hooks, step_calls, contacts, before_reset, trackVars, statVars, active_robots, active_robots_set,
                   pc, localVars, processed, episodes, outcomes, succeeded, ret>>

\* lines 203-237 and 241-263: the attempt that leaves the loop, and the rest of reset()
ResetAttemptSucceed(points) ==
    /\ pc = "reset_loop"
    /\ ~ResetGivesUp(reset_count)
    /\ objects_ids' = ObjectsIds(NumRobots)
    /\ aux_object_ids' = IF display_extra THEN build_visual_aux(aux_object_ids) ELSE aux_object_ids
    /\ \E c \in ResetContacts(NumRobots) :
        LET col == perform_collision_check(RobotsInWorld(NumRobots), objects_ids', c)
        IN  /\ ResetLoopBreaks(col)
            /\ collision' = col
    /\ attempts' = attempts + 1
    /\ active_robots' = [k \in 1..NumRobots |-> TRUE]
    /\ active_robots_set' = TRUE
    /\ succeeded' = {}
    /\ reset_count' = 0
    /\ pc' = "idle"
    /\ ret' = [op |-> "reset", status |-> "ok"]
    /\ before_reset' = NoSnapshot
    /\ hooks' = AfterLoopCalls(plugins, NumSensors, NumRobots, display_extra)
    /\ \E ee \in points : calls' = AttemptCalls(NumRobots, ee)
    /\ UNCHANGED <<cfgVars, targetVars, step_calls, contacts, trackVars, statVars, localVars, processed, episodes, outcomes>>

(***************************************************************************)
(* step(action)                                                            *)
(***************************************************************************)
\* the action vectors tried: entry k holds the number k; the length is the sum of
\* the robots' dimensions plus one of the given offsets
ActionVectors(total, offsets) ==
    {[k \in 1..len |-> k] : len \in {total + o : o \in offsets} \cap Nat}

\* line 291
IsActive(active, idx) == active[idx]

\* lines 290-296: hand each active robot its part of the action vector
RECURSIVE ApplyActions(_, _, _, _, _)
ApplyActions(act, active, dims, idx, offset) ==
    IF idx > Len(dims) THEN [exec |-> <<>>, calls |-> <<>>]
    ELSE IF ~IsActive(active, idx)
    THEN LET rest == ApplyActions(act, active, dims, idx + 1, offset)
         IN  [exec |-> rest.exec, calls |-> <<NoCall>> \o rest.calls]
    ELSE LET rest == ApplyActions(act, active, dims, idx + 1, offset + dims[idx])
         IN  [exec |-> <<idx>> \o rest.exec,
              calls |-> <<[called |-> TRUE,
                           slice |-> PySlice(act, offset, dims[idx] + offset)]>>
                        \o rest.calls]

StepEntryCalls_CheckBeforeSensors(exec, sensors) ==
    <<Call("world.update", 0)>>
    \o [i \in 1..Len(exec) |-> Call("robot.process_action", exec[i])]
    \o <<Call("world.perform_collision_check", 0)>>
    \o [k \in 1..sensors |-> Call("sensor.update", k)]

\* lines 285-303: the plugin calls up to the collision check; exec lists the
\* robots that were handed an action
StepEntryCalls(exec, sensors) ==
    <<Call("world.update", 0)>>
    \o [i \in 1..Len(exec) |-> Call("robot.process_action", exec[i])]
    \o [k \in 1..sensors |-> Call("sensor.update", k)]
    \o <<Call("world.perform_collision_check", 0)>>

\* lines 282-303 when self.active_robots does not exist yet: AttributeError at line 291
StepUnreset ==
    /\ pc = "idle"
    /\ ~active_robots_set
    /\ NumRobots > 0
    /\ ret' = [op |-> "step", status |-> "raise"]
    /\ step_calls' = <<Call("world.update", 0)>>
    /\ UNCHANGED <<cfgVars, worldVars, targetVars, hooks, contacts, calls, before_reset, trackVars, statVars, active_robots, active_robots_set,
                   collision, pc, reset_count, localVars, processed, attempts,
                   episodes, outcomes, succeeded>>

\* lines 282-310: world update, actions, sensor updates, collision check
StepBegin(maxSteps, maxEpisodes, offsets, contactSets) ==
    /\ pc = "idle"
    /\ active_robots_set \/ NumRobots = 0
    /\ steps_current_episode < maxSteps
    /\ episodes < maxEpisodes
    /\ \E act \in ActionVectors(SumSeq(action_space_dims), offsets), c \in contactSets :
        LET applied == ApplyActions(act, active_robots, action_space_dims, 1, 0)
        IN  /\ action' = act
            /\ exec_times_cpu' = applied.exec
            /\ processed' = applied.calls
            /\ step_calls' = StepEntryCalls(applied.exec, NumSensors)
            /\ collision' = perform_collision_check(RobotsInWorld(NumRobots), objects_ids, c)
    /\ rewards' = <<>>
    /\ dones' = <<>>
    /\ successes' = <<>>
    /\ timeouts' = <<>>
    /\ oobs' = <<>>
    /\ pc' = "step_goals"
    /\ ret' = [op |-> "step", status |-> "running"]
    /\ UNCHANGED <<cfgVars, worldVars, targetVars, hooks, contacts, calls, before_reset, trackVars, statVars, active_robots, active_robots_set,
                   reset_count, done, is_success, timeout, out_of_bounds,
                   attempts, episodes, outcomes, succeeded>>

\* what goal.reward() may return: <<reward, success, done, timeout, out_of_bounds>>
GoalResults ==
    { <<0, FALSE, FALSE, FALSE, FALSE>>,
      <<1, FALSE, FALSE, FALSE, FALSE>>,
      <<2, TRUE, FALSE, FALSE, FALSE>>,
      <<2, TRUE, TRUE, FALSE, FALSE>>,
      <<0, FALSE, TRUE, TRUE, FALSE>>,
      <<-1, FALSE, TRUE, FALSE, TRUE>> }

\* the goals that only report progress or success, never the end of the episode
ProgressResults == {r \in GoalResults : ~r[3] /\ r[1] # 1}

Deactivate_Never(active, idx, success, continues) == active

Deactivate_IgnoresContinue(active, idx, success, continues) ==
    IF success THEN [active EXCEPT ![idx] = FALSE] ELSE active

\* lines 316-317
Deactivate(active, idx, success, continues) ==
    IF success /\ ~continues THEN [active EXCEPT ![idx] = FALSE] ELSE active

\* lines 311-320: one pass of the goal loop
StepGoal(results) ==
    /\ pc = "step_goals"
    /\ Len(rewards) < NumRobots
    /\ LET idx == Len(rewards) + 1 IN
       \E reward_info \in results :
        /\ rewards' = Append(rewards, reward_info[1])
        /\ successes' = Append(successes, reward_info[2])
        /\ active_robots' = Deactivate(active_robots, idx, reward_info[2],
                                       continue_after_success[idx])
        /\ succeeded' = IF reward_info[2] /\ ~continue_after_success[idx]
                        THEN succeeded \cup {idx} ELSE succeeded
        /\ dones' = Append(dones, reward_info[3])
        /\ timeouts' = Append(timeouts, reward_info[4])
        /\ oobs' = Append(oobs, reward_info[5])
        /\ step_calls' = Append(step_calls, Call("goal.reward", idx))
    /\ UNCHANGED <<cfgVars, worldVars, targetVars, hooks, contacts, calls, before_reset, trackVars, statVars, active_robots_set, collision, pc,
                   reset_count, action, exec_times_cpu, done, is_success, timeout,
                   out_of_bounds, processed, attempts, episodes, outcomes, ret>>

AggregateDone_GoalsOnly(ds, col) == NpAny(ds)

\* line 324
AggregateDone(ds, col) == NpAny(ds) \/ col

AggregateSuccess_Any(ss) == NpAny(ss)

\* line 325
AggregateSuccess(ss) == NpAll(ss)

AggregateTimeout_All(ts) == NpAll(ts)

\* line 326
AggregateTimeout(ts) == NpAny(ts)

\* line 327
AggregateOutOfBounds(os) == NpAny(os)

AggregateReward_Swapped(normalize, rs) ==
    IF normalize THEN Frac(SumSeq(rs), 1) ELSE Frac(SumSeq(rs), Len(rs))

\* lines 332-336: np.average or np.sum of the goals' rewards
AggregateReward(normalize, rs) ==
    IF normalize THEN Frac(SumSeq(rs), Len(rs)) ELSE Frac(SumSeq(rs), 1)

\* lines 322-337: the goal loop is over; aggregate
StepAggregate ==
    /\ pc = "step_goals"
    /\ Len(rewards) = NumRobots
    /\ done' = AggregateDone(dones, collision)
    /\ is_success' = AggregateSuccess(successes)
    /\ timeout' = AggregateTimeout(timeouts)
    /\ out_of_bounds' = AggregateOutOfBounds(oobs)
    /\ reward' = AggregateReward(normalize_rewards, rewards)
    /\ reward_cumulative' = FracAdd(reward_cumulative, reward')
    /\ pc' = "step_track"
    /\ UNCHANGED <<cfgVars, worldVars, targetVars, hooks, step_calls, contacts, calls, before_reset, steps_current_episode, sim_time,
                   cpu_time, log, statVars,
                   active_robots, active_robots_set, collision, reset_count,
                   action, exec_times_cpu, rewards, dones, successes, timeouts, oobs,
                   processed, attempts, episodes, outcomes, succeeded, ret>>

PushStat_EvictsEarly(buf, x) ==
    LET appended == Append(buf, x)
    IN  IF Len(appended) >= stat_buffer_size THEN Tail(appended) ELSE appended

PushStat_KeepsOldest(buf, x) ==
    LET appended == Append(buf, x)
    IN  IF Len(appended) > stat_buffer_size
        THEN <<Head(appended)>> \o Tail(Tail(appended)) ELSE appended

PushStat_DropsNewest(buf, x) ==
    LET appended == Append(buf, x)
    IN  IF Len(appended) > stat_buffer_size
        THEN SubSeq(appended, 1, stat_buffer_size) ELSE appended

\* lines 344-346 (and 347-355): append, then drop the oldest entry when over capacity
PushStat(buf, x) ==
    LET appended == Append(buf, x)
    IN  IF Len(appended) > stat_buffer_size THEN Tail(appended) ELSE appended

NextStepCount_Double(steps) == steps + 2

\* line 342
NextStepCount(steps) == steps + 1

\* lines 373-374: exec_times_cpu[idx] for every robot; IndexError when an entry is missing
InfoRaises == logging \in {1, 2} /\ Len(exec_times_cpu) < NumRobots

\* lines 339-398: tracking variables, stat buffers, info record, return
StepTrack ==
    /\ pc = "step_track"
    /\ sim_time' = sim_time + 1
    /\ cpu_time' = cpu_time + 1
    /\ steps_current_episode' = NextStepCount(steps_current_episode)
    /\ IF done
       THEN /\ success_stat' = PushStat(success_stat, is_success)
            /\ timeout_stat' = PushStat(timeout_stat, timeout)
            /\ out_of_bounds_stat' = PushStat(out_of_bounds_stat, out_of_bounds)
            /\ collision_stat' = PushStat(collision_stat, collision)
            /\ episodes' = episodes + 1
            /\ outcomes' = Append(outcomes, is_success)
       ELSE UNCHANGED <<statVars, episodes, outcomes>>
    /\ IF InfoRaises
       THEN /\ log' = log
            /\ step_calls' = step_calls
            /\ ret' = [op |-> "step", status |-> "raise"]
       ELSE /\ log' = IF logging \in {1, 2}
                      THEN Append(log, steps_current_episode') ELSE log
            /\ step_calls' = step_calls \o ObservationCalls(plugins, NumSensors, 1)
            /\ ret' = [op |-> "step", status |-> "ok"]
    /\ pc' = "idle"
    /\ action' = <<>>
    /\ exec_times_cpu' = <<>>
    /\ rewards' = <<>>
    /\ dones' = <<>>
    /\ successes' = <<>>
    /\ timeouts' = <<>>
    /\ oobs' = <<>>
    /\ UNCHANGED <<cfgVars, worldVars, targetVars, hooks, contacts, calls, before_reset, reward, reward_cumulative, active_robots,
                   active_robots_set, collision, reset_count, done, is_success,
                   timeout, out_of_bounds, processed, attempts, succeeded>>

(***************************************************************************)
(* World.perform_collision_check() called on its own                       *)
(***************************************************************************)
\* every set of touching pairs among the robots, the world's collision objects
\* and one body that is in no list of the world
AnyContacts(n) == SUBSET BodyPairs(1..(n + 2))

CollisionCheck ==
    /\ pc = "idle"
    /\ \E c \in AnyContacts(NumRobots) :
        /\ contacts' = c
        /\ collision' = perform_collision_check(RobotsInWorld(NumRobots), objects_ids, c)
    /\ ret' = [op |-> "perform_collision_check", status |-> "ok"]
    /\ UNCHANGED <<cfgVars, worldVars, targetVars, hooks, step_calls, calls, before_reset, trackVars, statVars, active_robots,
                   active_robots_set, pc, reset_count, localVars, processed, attempts,
                   episodes, outcomes, succeeded>>

(***************************************************************************)
(* Specifications                                                          *)
(***************************************************************************)
Next ==
    \/ ResetBegin
    \/ ResetAttemptCollide(MaxCollide, XyzPoints(NumRobots))
    \/ ResetAttemptSucceed(XyzPoints(NumRobots))
    \/ StepUnreset
    \/ StepBegin(MaxSteps, MaxEpisodes, {0}, StepContacts(NumRobots))
    \/ StepGoal(ProgressResults)
    \/ StepAggregate
    \/ StepTrack

Spec == Init /\ [][Next]_vars

(***************************************************************************)
(* SpecVerdict: one environment of any size, goals returning every kind    *)
(* of reward tuple; the aggregation of step().                             *)
(***************************************************************************)
InitVerdict == InitWith(Configs(0..MaxRobots, {TRUE}, BOOLEAN, {0}, {FALSE}))

NextVerdict ==
    \/ ResetBegin
    \/ ResetAttemptSucceed(XyzPoints(NumRobots))
    \/ StepBegin(VerdictSteps, MaxEpisodes, {0}, StepContacts(NumRobots))
    \/ StepGoal(GoalResults)
    \/ StepAggregate
    \/ StepTrack

SpecVerdict == InitVerdict /\ [][NextVerdict]_vars

(***************************************************************************)
(* SpecStats: long runs of short episodes of one robot, enough of them to  *)
(* fill the stat buffers.  At most MaxMarks of the episodes held in the    *)
(* buffers ended by a timeout, out of bounds or in a collision; the others *)
(* ended in success.                                                       *)
(***************************************************************************)
Marks ==
    Cardinality({i \in 1..Len(timeout_stat) :
                    timeout_stat[i] \/ out_of_bounds_stat[i] \/ collision_stat[i]})

StatResults ==
    IF Marks < MaxMarks
    THEN {r \in GoalResults : r[3] /\ (r[2] \/ r[4] \/ r[5])}
    ELSE {r \in GoalResults : r[3] /\ r[2]}

StatContacts == IF Marks < MaxMarks THEN {{}, {{1, 2}}} ELSE {{}}

InitStats == InitWith(Configs({1}, {TRUE}, {FALSE}, {0}, {FALSE}))

NextStats ==
    \/ ResetBegin
    \/ ResetAttemptSucceed(XyzPoints(NumRobots))
    \/ StepBegin(StatSteps, stat_buffer_size + StatExtraEpisodes, {0}, StatContacts)
    \/ StepGoal(StatResults)
    \/ StepAggregate
    \/ StepTrack

SpecStats == InitStats /\ [][NextStats]_vars

(***************************************************************************)
(* SpecExhaust: a world whose generation may collide on every attempt.     *)
(***************************************************************************)
InitExhaust == InitWith(Configs(1..MaxRobots, {FALSE}, {FALSE}, {0}, {FALSE}))

NextExhaust ==
    \/ ResetBegin
    \/ ResetRaise
    \/ ResetAttemptCollide(reset_limit + 1, XyzPoints(NumRobots))
    \/ ResetAttemptSucceed(XyzPoints(NumRobots))
    \/ StepBegin(ExhaustSteps, MaxEpisodes, {0}, {{}})
    \/ StepGoal(ProgressResults)
    \/ StepAggregate
    \/ StepTrack

SpecExhaust == InitExhaust /\ [][NextExhaust]_vars

(***************************************************************************)
(* SpecLength: callers that pass action vectors of the right length or one *)
(* entry too long.                                                         *)
(***************************************************************************)
LengthOffsets == {0, 1}

InitLength == InitWith(Configs(1..MaxRobots, {TRUE}, {FALSE}, {0}, {FALSE}))

NextLength ==
    \/ ResetBegin
    \/ ResetAttemptSucceed(XyzPoints(NumRobots))
    \/ StepBegin(LengthSteps, MaxEpisodes, LengthOffsets, {{}})
    \/ StepGoal(ProgressResults)
    \/ StepAggregate
    \/ StepTrack

SpecLength == InitLength /\ [][NextLength]_vars

(***************************************************************************)
(* SpecCompose: environments built from any list of sensors and goals,     *)
(* SpecRegister: environments whose goals need any mix of position and     *)
(* rotation targets; both are then reset and stepped.                      *)
(***************************************************************************)
NextBuilt ==
    \/ ResetBegin
    \/ ResetAttemptSucceed(XyzPoints(NumRobots))
    \/ StepBegin(BuildSteps, MaxEpisodes, {0}, {{}})
    \/ StepGoal(ProgressResults)
    \/ StepAggregate
    \/ StepTrack

InitCompose ==
    InitFrom(Configs({1}, {TRUE}, {FALSE}, {0}, {FALSE}), [n \in 0..MaxRobots |-> AnyPlugins(n)],
             [n \in 0..MaxRobots |-> PositionGoals(n)])

SpecCompose == InitCompose /\ [][NextBuilt]_vars

InitRegister ==
    InitFrom(Configs(0..MaxRobots, {TRUE}, {FALSE}, {0}, {FALSE}),
             [n \in 0..MaxRobots |-> OwnKeyPlugins(n)],
             [n \in 0..MaxRobots |-> GoalNeeds(n)])

SpecRegister == InitRegister /\ [][NextBuilt]_vars

(***************************************************************************)
(* SpecCollision: collision checks over every contact situation, in a      *)
(* world that was never built and in one that a reset() built.             *)
(***************************************************************************)
InitCollision == InitWith(Configs(0..MaxRobots, {TRUE}, {FALSE}, {0}, {TRUE}))

NextCollision ==
    \/ ResetBegin
    \/ ResetAttemptSucceed(XyzPoints(NumRobots))
    \/ CollisionCheck

SpecCollision == InitCollision /\ [][NextCollision]_vars

(***************************************************************************)
(* SpecAttempt: resets of worlds that hand out every kind of end-effector  *)
(* starting point.                                                         *)
(***************************************************************************)
InitAttempt == InitWith(Configs(0..MaxRobots, {TRUE}, {FALSE}, {0}, BOOLEAN))

NextAttempt ==
    \/ ResetBegin
    \/ ResetAttemptCollide(AttemptCollide, AnyPoints(NumRobots))
    \/ ResetAttemptSucceed(AnyPoints(NumRobots))

SpecAttempt == InitAttempt /\ [][NextAttempt]_vars

(***************************************************************************)
(* SpecOrder: episodes in which robots are deactivated, for the order of   *)
(* the plugin calls of step().                                             *)
(***************************************************************************)
InitOrder == InitWith(Configs(0..MaxRobots, BOOLEAN, {FALSE}, {0}, {FALSE}))

NextOrder ==
    \/ ResetBegin
    \/ ResetAttemptSucceed(XyzPoints(NumRobots))
    \/ StepUnreset
    \/ StepBegin(OrderSteps, MaxEpisodes, {0}, {{}})
    \/ StepGoal(ProgressResults)
    \/ StepAggregate
    \/ StepTrack

SpecOrder == InitOrder /\ [][NextOrder]_vars

(***************************************************************************)
(* SpecTrack: logged episodes that end in a collision or are cut short by  *)
(* a reset, for the tracking variables.                                    *)
(***************************************************************************)
InitTrack == InitWith(Configs(0..MaxRobots, {TRUE}, {FALSE}, {1, 2}, {FALSE}))

NextTrack ==
    \/ ResetBegin
    \/ ResetAttemptCollide(MaxCollide, XyzPoints(NumRobots))
    \/ ResetAttemptSucceed(XyzPoints(NumRobots))
    \/ StepBegin(TrackSteps, MaxEpisodes, {0}, StepContacts(NumRobots))
    \/ StepGoal(ProgressResults)
    \/ StepAggregate
    \/ StepTrack

SpecTrack == InitTrack /\ [][NextTrack]_vars

(***************************************************************************)
(* Properties                                                              *)
(***************************************************************************)
ResetReturned == ret.op = "reset" /\ ret.status = "ok"

ResetRaised == ret.op = "reset" /\ ret.status = "raise"

\* C1 (as claimed): a reset() whose attempts all collide makes exactly 1000
\* attempts and then raises; a 1001st attempt is never started.
C1_ExactlyThousandAttempts ==
    /\ attempts <= reset_limit
    /\ ResetRaised => attempts = reset_limit

\* C2: whenever reset() has returned normally, World.collision is false,
\* however many colliding attempts came before the successful one.
C2_ResetReturnsCollisionFree == ResetReturned => ~collision

C2_Witness == ResetReturned /\ attempts = MaxCollide + 1 /\ ~collision

\* the part of the action vector between the boundaries fixed at construction
FixedSlice(act, dims, i) ==
    SubSeq(act, SumSeq(SubSeq(dims, 1, i - 1)) + 1, SumSeq(SubSeq(dims, 1, i)))

\* C3 (as claimed): every robot that receives process_action in a step receives
\* the slice of the action vector at its fixed boundaries, whatever the active
\* status of the robots registered before it.
C3_FixedSlices ==
    (pc \in {"step_goals", "step_track"} /\ Len(action) = SumSeq(action_space_dims))
        => \A i \in 1..NumRobots :
              processed[i].called
                  => processed[i].slice = FixedSlice(action, action_space_dims, i)

\* the step that hands out the actions
ActionsApplied == pc = "idle" /\ pc' = "step_goals"

\* C4: once a robot's goal reported success with continue_after_success false,
\* no later step before the next reset() calls process_action on that robot,
\* and every other robot keeps receiving process_action.
C4_NoActionAfterSuccess ==
    [][ActionsApplied =>
          \A i \in 1..NumRobots :
              /\ i \in succeeded => ~processed'[i].called
              /\ i \notin succeeded => processed'[i].called]_vars

C4_Witness ==
    /\ pc = "step_goals"
    /\ rewards = <<>>
    /\ \E i \in succeeded : ~processed[i].called
    /\ \E j \in (1..NumRobots) \ succeeded : processed[j].called

\* C5: an active flag goes from true to false only in the pass of the goal loop
\* for the robot's own goal, when that goal reports success and its
\* continue_after_success is false; a false flag stays false until reset()
\* returns, and only reset() makes it true.
C5_ActiveFlag ==
    [][active_robots_set =>
          \A i \in 1..NumRobots :
              /\ (active_robots[i] /\ ~active_robots'[i])
                    => /\ pc = "step_goals"
                       /\ Len(successes') = i
                       /\ successes'[i]
                       /\ ~continue_after_success[i]
              /\ (~active_robots[i] /\ active_robots'[i])
                    => /\ pc = "reset_loop"
                       /\ ret'.op = "reset"
                       /\ ret'.status = "ok"]_vars

C5_Witness ==
    /\ pc = "idle"
    /\ ret.op = "step"
    /\ steps_current_episode >= 2
    /\ \E i \in 1..NumRobots : ~active_robots[i] /\ ~continue_after_success[i]
    /\ \E j \in 1..NumRobots : active_robots[j] /\ continue_after_success[j]

\* C6: the done value step() returns is true exactly when World.collision is
\* true after the step's collision check or some goal reported done.
C6_Done ==
    pc = "step_track"
        => /\ Len(dones) = NumRobots
           /\ done <=> (collision \/ \E i \in 1..Len(dones) : dones[i])

C6_Witness ==
    /\ pc = "step_track"
    /\ done
    /\ collision
    /\ \A i \in 1..Len(dones) : ~dones[i]
    /\ Len(dones) >= 2

\* C7: is_success is true exactly when every goal reported success in the step;
\* it is true when there are no goals.
C7_IsSuccess ==
    pc = "step_track"
        => /\ Len(successes) = NumRobots
           /\ is_success <=> (\A i \in 1..Len(successes) : successes[i])
           /\ successes = <<>> => is_success

C7_Witness == pc = "step_track" /\ successes = <<>> /\ is_success

\* C8: with goals present, the reward of a step is the mean of the goals'
\* rewards when normalize_rewards is true, and their sum when it is false.
C8_Reward ==
    (pc = "step_track" /\ Len(rewards) > 0)
        => IF normalize_rewards
           THEN /\ reward.den > 0
                /\ reward.num * Len(rewards) = SumSeq(rewards) * reward.den
           ELSE /\ reward.den = 1
                /\ reward.num = SumSeq(rewards)

C8_Witness ==
    /\ pc = "step_track"
    /\ normalize_rewards
    /\ Len(rewards) = 2
    /\ reward = [num |-> 1, den |-> 2]

StatBuffers == <<success_stat, timeout_stat, out_of_bounds_stat, collision_stat>>

\* C9 (as claimed): each stat buffer is as long as the number of completed
\* episodes, up to stat_buffer_size; it is empty before the first episode ends.
C9_LengthIsEpisodes ==
    \A b \in 1..4 : Len(StatBuffers[b]) = Min(episodes, stat_buffer_size)

\* C9 (amended): each stat buffer starts with one entry, False, and is as long
\* as one more than the number of steps whose done was true, up to
\* stat_buffer_size.
C9_LengthIsEpisodesPlusSeed ==
    \A b \in 1..4 : Len(StatBuffers[b]) = Min(episodes + 1, stat_buffer_size)

C9_Witness ==
    /\ episodes > stat_buffer_size
    /\ \A b \in 1..4 : Len(StatBuffers[b]) = stat_buffer_size

\* the value pushed by a step whose done is true, per buffer
Pushed == <<is_success, timeout, out_of_bounds, collision>>

\* C10: a stat buffer never holds more than stat_buffer_size entries; an
\* insertion into a full buffer removes the oldest entry only and keeps the
\* order of the others, the new entry going last.
C10_BoundedFifo ==
    /\ [](\A b \in 1..4 : Len(StatBuffers[b]) <= stat_buffer_size)
    /\ [][(pc = "step_track" /\ done) =>
            \A b \in 1..4 :
                StatBuffers'[b] =
                    IF Len(StatBuffers[b]) = stat_buffer_size
                    THEN Tail(StatBuffers[b]) \o <<Pushed[b]>>
                    ELSE StatBuffers[b] \o <<Pushed[b]>>]_vars

C10_Witness ==
    /\ episodes > stat_buffer_size
    /\ Len(timeout_stat) = stat_buffer_size
    /\ \E i \in 1..(stat_buffer_size - 1) :
          timeout_stat[i] \/ out_of_bounds_stat[i] \/ collision_stat[i]

\* the last n entries of a sequence
LastN(s, n) == SubSeq(s, Len(s) - n + 1, Len(s))

\* C11: once stat_buffer_size episodes have been completed, the success buffer
\* holds exactly the is_success outcomes of the most recent stat_buffer_size
\* completed episodes, oldest first, and nothing else; after stat_buffer_size + 1
\* successes in a row it has stat_buffer_size entries, all true (average 1.0).
C11_SuccessWindow ==
    episodes >= stat_buffer_size
        => /\ success_stat = LastN(outcomes, stat_buffer_size)
           /\ (episodes = stat_buffer_size + 1 /\ NpAll(outcomes))
                 => (Len(success_stat) = stat_buffer_size /\ NpAll(success_stat))

C11_Witness ==
    /\ episodes = stat_buffer_size + 1
    /\ NpAll(outcomes)
    /\ Len(success_stat) = stat_buffer_size
    /\ NpAll(success_stat)

\* C12 (as claimed): a step() whose action vector is not as long as the sum of
\* the robots' action dimensions is rejected on entry: it never reaches the
\* world update, a process_action call, the goal loop or the bookkeeping.
C12_WrongLengthRejected ==
    pc \in {"step_goals", "step_track"}
        => /\ Len(action) = SumSeq(action_space_dims)
           /\ \A i \in 1..NumRobots :
                 processed[i].called => Len(processed[i].slice) = action_space_dims[i]

\* the plugins that opt in and contribute key k
Contributors(k) ==
    {p \in 1..Len(plugins) : plugins[p].add_to_observation_space /\ k \in plugins[p].keys}

\* C13 (as claimed): a constructed environment has no key contributed twice:
\* the observation space has as many keys as the opted-in plugins contributed
\* in total, and no entry of an earlier plugin was replaced by a later one.
C13_KeysNeverOverwritten ==
    /\ Cardinality(DOMAIN observation_space)
          = SumSeq([p \in 1..Len(plugins) |->
                       IF plugins[p].add_to_observation_space
                       THEN Cardinality(plugins[p].keys) ELSE 0])
    /\ \A k \in DOMAIN observation_space :
          \A p \in Contributors(k) : observation_space[k] <= p

\* C14 (as claimed): with logging 1 or 2, every step() after a reset(), also one
\* that starts with inactive robots, reaches the construction of the info
\* record with one execution time per registered robot, the idx-th being that
\* of the idx-th robot, and returns normally.
C14_InfoForEveryRobot ==
    /\ (logging \in {1, 2} /\ pc = "step_track")
          => /\ Len(exec_times_cpu) = NumRobots
             /\ \A idx \in 1..NumRobots : exec_times_cpu[idx] = idx
    /\ (logging \in {1, 2} /\ active_robots_set /\ pc = "idle" /\ ret.op = "step")
          => ret.status = "ok"

\* C15 (as claimed): after a reset() that gave up, what the next reset() or
\* step() can observe (World.collision, the active flags, the step counter of
\* the episode, the stat buffers) is what it was when that reset() was entered.
C15_FailedResetLeavesNoTrace ==
    ResetRaised
        => /\ collision = before_reset.collision
           /\ active_robots = before_reset.active_robots
           /\ steps_current_episode = before_reset.steps
           /\ StatBuffers = before_reset.stats

\* C16: from registration on, in every state, the robots' ids are pairwise
\* distinct and are exactly 0..N-1 for N registered robots, the k-th robot
\* registered (counting from 0) carrying id k.
C16_RobotIds ==
    /\ Len(robot_ids) = NumRobots
    /\ \A i, j \in 1..NumRobots : i # j => robot_ids[i] # robot_ids[j]
    /\ {robot_ids[k] : k \in 1..NumRobots} = 0..(NumRobots - 1)
    /\ \A k \in 1..NumRobots : robot_ids[k] = k - 1

C16_Witness ==
    /\ NumRobots >= 2
    /\ robot_ids[1] = 0
    /\ robot_ids[1] # UnregisteredId
    /\ robot_ids[2] = 1
    /\ ret.op = "step"
    /\ ret.status = "ok"

\* the robots held by one of the world's lists
Members(list) == {list[i] : i \in 1..Len(list)}

\* C19 (as claimed): after registration robots_with_position holds exactly the
\* robots whose goal needs a position, and robots_with_orientation exactly
\* those whose goal needs a rotation, a robot whose goal needs both being in
\* both lists.
C19_ListsFollowFlags ==
    /\ Members(robots_with_position) = {k \in 1..NumRobots : needs_a_position[k]}
    /\ Members(robots_with_orientation) = {k \in 1..NumRobots : needs_a_rotation[k]}

\* C17: after every perform_collision_check, World.collision is true exactly
\* when some registered robot touches a body that is in objects_ids at that
\* moment or two distinct registered robots touch each other; contacts with
\* the bodies of aux_object_ids never count, and leaving the loops early
\* changes nothing.
C17_CollisionIffContact ==
    ret.op = "perform_collision_check"
        => (collision <=>
              \/ \E r \in 1..NumRobots, k \in 1..Len(objects_ids) :
                     {r, objects_ids[k]} \in contacts
              \/ \E r1, r2 \in 1..NumRobots : r1 # r2 /\ {r1, r2} \in contacts)

\* in a built world: a robot touching only a body that is in no list of the
\* world while another robot touches a collision object
C17_Witness ==
    /\ ret.op = "perform_collision_check"
    /\ NumRobots >= 2
    /\ objects_ids # <<>>
    /\ contacts = {{1, NumRobots + 2}, {2, objects_ids[1]}}
    /\ collision

\* a stat buffer after one more entry went in
WithEntry(buf, x) ==
    IF Len(buf) < stat_buffer_size THEN Append(buf, x) ELSE Tail(Append(buf, x))

\* C18: a step() whose done is false leaves the four stat buffers as they
\* were; a step() whose done is true puts exactly one entry into each: the
\* conjunction of the goals' success flags, the disjunction of their timeout
\* flags, the disjunction of their out-of-bounds flags, and World.collision of
\* that step.  No other part of step() writes the buffers.
C18_StatBufferFrame ==
    [][/\ (pc = "idle" /\ pc' = "step_goals") => UNCHANGED statVars
       /\ pc = "step_goals" => UNCHANGED statVars
       /\ pc = "step_track" =>
             IF NpAny(dones) \/ collision
             THEN /\ success_stat' = WithEntry(success_stat, NpAll(successes))
                  /\ timeout_stat' = WithEntry(timeout_stat, NpAny(timeouts))
                  /\ out_of_bounds_stat' = WithEntry(out_of_bounds_stat, NpAny(oobs))
                  /\ collision_stat' = WithEntry(collision_stat, collision)
             ELSE UNCHANGED statVars]_vars

C18_Witness ==
    /\ pc = "idle"
    /\ ret.op = "step"
    /\ NumRobots = 2
    /\ success_stat = <<FALSE, FALSE>>
    /\ timeout_stat = <<FALSE, TRUE>>
    /\ out_of_bounds_stat = <<FALSE, FALSE>>
    /\ collision_stat = <<FALSE, FALSE>>

\* every call of the attempt to a function of group a comes before every call
\* to a function of group b
Before(a, b) ==
    \A i, j \in 1..Len(calls) :
        (calls[i].fn \in a /\ calls[j].fn \in b) => i < j

\* the groups follow one another in the order given, and each function named
\* in must is called
InOrder(groups, must) ==
    /\ \A a, b \in 1..Len(groups) : a < b => Before(groups[a], groups[b])
    /\ \A f \in must : \E i \in 1..Len(calls) : calls[i].fn = f
    /\ \A i \in 1..Len(calls) : \E a \in 1..Len(groups) : calls[i].fn \in groups[a]

TeleportCalls == {"robot.moveto_xyz", "robot.moveto_xyzquat"}

WorldCalls ==
    {"pyb.resetSimulation", "world.reset", "world.create_ee_starting_points",
     "world.create_position_target", "world.create_rotation_target", "world.build",
     "world.perform_collision_check"}

\* C20 (as claimed): in every initialization attempt the calls come in this
\* order: physics reset, World.reset(), build() of every robot,
\* create_ee_starting_points() and the teleports of the robots, creation of the
\* position and rotation targets, World.build(), collision check; the robots
\* are teleported before World.build().
C20_TeleportThenWorldBuild ==
    calls # <<>> =>
        InOrder(<<{"pyb.resetSimulation"}, {"world.reset"}, {"robot.build"},
                  {"world.create_ee_starting_points"}, TeleportCalls,
                  {"world.create_position_target", "world.create_rotation_target"},
                  {"world.build"}, {"world.perform_collision_check"}>>, WorldCalls)

\* C20 (amended): in every initialization attempt the calls come in this
\* order: physics reset, World.reset(), build() of every robot,
\* create_ee_starting_points(), create_position_target(),
\* create_rotation_target(), World.build(), then the teleports of the robots
\* that were given a starting point, then the collision check; every robot is
\* built, and the robots are teleported after World.build().
C20_WorldBuildThenTeleport ==
    calls # <<>> =>
        /\ InOrder(<<{"pyb.resetSimulation"}, {"world.reset"}, {"robot.build"},
                     {"world.create_ee_starting_points"},
                     {"world.create_position_target"}, {"world.create_rotation_target"},
                     {"world.build"}, TeleportCalls,
                     {"world.perform_collision_check"}>>, WorldCalls)
        /\ \A k \in 1..NumRobots :
              \E i \in 1..Len(calls) : calls[i] = Call("robot.build", k)

C20_Witness ==
    /\ ResetReturned
    /\ attempts = AttemptCollide + 1
    /\ \E i, j, k \in 1..Len(calls) :
          /\ i < j
          /\ j < k
          /\ calls[i].fn = "world.build"
          /\ calls[j] = Call("robot.moveto_xyz", 1)
          /\ calls[k] = Call("robot.moveto_xyzquat", 2)

\* the positions in the trace of step() of the calls to the functions of a group
StepPositions(group) == {i \in 1..Len(step_calls) : step_calls[i].fn \in group}

StepGroups ==
    <<{"world.update"}, {"robot.process_action"}, {"sensor.update"},
      {"world.perform_collision_check"}, {"goal.reward"},
      {"sensor.get_observation", "goal.get_observation"}>>

\* the place of a function in the order of the groups
StepGroup(fn) == CHOOSE a \in 1..Len(StepGroups) : fn \in StepGroups[a]

\* C21: within every step() World.update() comes before every process_action,
\* every process_action before every sensor update, every sensor update
\* before the collision check, the collision check before every goal's
\* reward(), and the observation is read from the sensors and goals only
\* after all of these; a step that returns has updated the world once,
\* updated every sensor, checked collisions once and asked every goal.
C21_StepCallOrder ==
    /\ \A i \in 1..Len(step_calls) :
          \E a \in 1..Len(StepGroups) : step_calls[i].fn \in StepGroups[a]
    /\ \A i \in 1..(Len(step_calls) - 1) :
          StepGroup(step_calls[i].fn) <= StepGroup(step_calls[i + 1].fn)
    /\ (pc = "idle" /\ ret.op = "step" /\ ret.status = "ok")
          => /\ Cardinality(StepPositions({"world.update"})) = 1
             /\ Cardinality(StepPositions({"world.perform_collision_check"})) = 1
             /\ \A k \in 1..NumSensors :
                   \E i \in 1..Len(step_calls) : step_calls[i] = Call("sensor.update", k)
             /\ \A g \in 1..NumRobots :
                   \E i \in 1..Len(step_calls) : step_calls[i] = Call("goal.reward", g)

C21_Witness ==
    /\ pc = "idle"
    /\ ret.op = "step"
    /\ ret.status = "ok"
    /\ NumRobots = 2
    /\ StepPositions({"robot.process_action"}) # {}
    /\ \A i \in StepPositions({"robot.process_action"}) : step_calls[i].robot = 2
    /\ Cardinality(StepPositions({"sensor.update"})) = 2
    /\ Cardinality(StepPositions({"goal.reward"})) = 2
    /\ step_calls[Len(step_calls)] = Call("goal.get_observation", 2)

\* C22 (as claimed): after reset() has returned normally, World.position_targets
\* and World.rotation_targets hold what create_position_target() and
\* create_rotation_target() returned in the last, collision-free attempt.
C22_TargetsStoredOnWorld ==
    ResetReturned
        => /\ position_targets = CreatedTargets(NumRobots, attempts)
           /\ rotation_targets = CreatedTargets(NumRobots, attempts)

\* how often a call occurs in a trace
Occurrences(trace, call) == Cardinality({i \in 1..Len(trace) : trace[i] = call})

\* the positions in a trace of the calls to a function
PositionsOf(trace, fn) == {i \in 1..Len(trace) : trace[i].fn = fn}

\* C23: in a reset() that returns normally, after any number of colliding
\* attempts, every sensor's reset() and every goal's on_env_reset() is called
\* exactly once, after the robots were marked active, the sensor resets before
\* the on_env_reset calls; none of them is called while attempts still collide
\* or when reset() gives up; every attempt builds each robot once and the
\* world once.
C23_ResetHooksOnce ==
    /\ (pc = "reset_loop" \/ ResetRaised) => hooks = <<>>
    /\ ResetReturned
          => /\ \A k \in 1..NumSensors : Occurrences(hooks, Call("sensor.reset", k)) = 1
             /\ \A g \in 1..NumRobots : Occurrences(hooks, Call("goal.on_env_reset", g)) = 1
             /\ Cardinality(PositionsOf(hooks, "sensor.reset")) = NumSensors
             /\ Cardinality(PositionsOf(hooks, "goal.on_env_reset")) = NumRobots
             /\ \A a \in PositionsOf(hooks, "self.active_robots") :
                   \A i \in PositionsOf(hooks, "sensor.reset")
                             \cup PositionsOf(hooks, "goal.on_env_reset") : a < i
             /\ PositionsOf(hooks, "self.active_robots") # {}
             /\ \A i \in PositionsOf(hooks, "sensor.reset") :
                   \A j \in PositionsOf(hooks, "goal.on_env_reset") : i < j
    /\ calls # <<>>
          => /\ \A k \in 1..NumRobots : Occurrences(calls, Call("robot.build", k)) = 1
             /\ Cardinality(PositionsOf(calls, "robot.build")) = NumRobots
             /\ Occurrences(calls, Call("world.build", 0)) = 1
             /\ PositionsOf(calls, "sensor.reset") = {}
             /\ PositionsOf(calls, "goal.on_env_reset") = {}

C23_Witness ==
    /\ ResetReturned
    /\ attempts = AttemptCollide + 1
    /\ NumRobots = 2
    /\ Occurrences(hooks, Call("sensor.reset", 2)) = 1
    /\ Occurrences(hooks, Call("goal.on_env_reset", 2)) = 1
    /\ Occurrences(calls, Call("robot.build", 2)) = 1

\* C24: reset() puts the step counter, the simulated time, the cpu time, the
\* reward of the step, the cumulative reward and the log back to their initial
\* values and no part of it writes the four stat buffers; between two resets
\* the step counter grows by exactly one per step(), in the bookkeeping of
\* the step and nowhere else.
C24_ResetClearsTracking ==
    [][/\ (pc = "idle" /\ pc' = "reset_loop")
            => /\ steps_current_episode' = 0
               /\ sim_time' = 0
               /\ cpu_time' = 0
               /\ reward' = Frac(0, 1)
               /\ reward_cumulative' = Frac(0, 1)
               /\ log' = <<>>
               /\ UNCHANGED statVars
       /\ pc = "reset_loop"
            => /\ UNCHANGED statVars
               /\ steps_current_episode' = 0
               /\ sim_time' = 0
               /\ cpu_time' = 0
               /\ reward' = Frac(0, 1)
               /\ reward_cumulative' = Frac(0, 1)
               /\ log' = <<>>
       /\ ((pc = "idle" /\ pc' = "step_goals") \/ pc = "step_goals")
            => steps_current_episode' = steps_current_episode
       /\ pc = "step_track" => steps_current_episode' = steps_current_episode + 1]_vars

C24_Witness ==
    /\ pc = "reset_loop"
    /\ before_reset.steps = TrackSteps
    /\ steps_current_episode = 0
    /\ log = <<>>
    /\ logging = 1
    /\ reward_cumulative = Frac(0, 1)
    /\ Len(collision_stat) = 2
    /\ collision_stat[2]
    /\ before_reset.stats = StatBuffers

====
